---- MODULE Spec2Model ----
(***************************************************************************)
(* A model of the LiteLLM MCP server (src/src/server_litellm/server.py):   *)
(* the tool surface (call_tool), the completion handler                    *)
(* (_handle_completion), the direct proxy call (_call_proxy_direct) and    *)
(* the model listing (_handle_list_models).                                *)
(*                                                                         *)
(* Python values are tagged records, so that values of different Python    *)
(* types can be told apart and compared:                                   *)
(*   None, Str(s), List(q), Dict(d), Concat(parts) (an f-string / "+")     *)
(* dicts whose shape is fixed by the code (arguments, a message, a choice, *)
(* a payload) are TLA+ functions from keys to values; a missing key is a   *)
(* key outside the DOMAIN.  A temperature is kept in tenths (0.7 is 7).    *)
(***************************************************************************)
EXTENDS Integers, Sequences, FiniteSets, TLC

VARIABLES
    SUPPORTED_MODELS,  \* module global: the allow-list (a Python list)
    MODEL_PERFORMANCE_CONFIG,  \* performance_config.py: the per-model table (a dict)
    LITELLM_PROXY_URL, \* module global: the base URL of the proxy
    LITELLM_API_KEY,   \* module global: the bearer token, or None
    HTTP_CLIENT,       \* module global: the shared httpx.AsyncClient
    server,            \* the server process: its phase, transport, exit and aclose calls
    pc,                \* per task: idle / awaiting_post / in_completion / done
    call,              \* per task: the tool request being handled
    sent,              \* per task: the transport invocations made, in order
    reply,             \* per task: what the transport gave back
    result,            \* per task: what call_tool returned or raised
    log,               \* per task: the log records emitted, in order
    blocking,          \* the tasks (none or one) holding the event loop in a synchronous call
    http_request,      \* per task: the tool request the HTTP endpoint has accepted
    conversation_history  \* claude_cli.py: the history list of the chat loop

vars == <<SUPPORTED_MODELS, MODEL_PERFORMANCE_CONFIG, LITELLM_PROXY_URL,
          LITELLM_API_KEY, HTTP_CLIENT, server,
          pc, call, sent, reply, result, log, blocking,
          http_request, conversation_history>>

\* the configuration the modules set up when they are imported
settings == <<SUPPORTED_MODELS, MODEL_PERFORMANCE_CONFIG, LITELLM_PROXY_URL,
              LITELLM_API_KEY>>

globals == <<settings, HTTP_CLIENT, server>>

\* the state of the callers of the handlers: the HTTP endpoint and the chat loop
callers == <<http_request, conversation_history>>

-----------------------------------------------------------------------------
(* Bounds of the model *)

MaxMessages == 2     \* longest messages list a request carries
MaxChoices == 2      \* longest choices list a response carries
MaxTasks == 2        \* tool calls that can be in progress together
MaxHistory == 4      \* longest conversation history the chat loop sends

Tasks == 1..MaxTasks

-----------------------------------------------------------------------------
(* Python values *)

None == [t |-> "none"]
Str(s) == [t |-> "str", s |-> s]
PyInt(n) == [t |-> "int", n |-> n]
List(q) == [t |-> "list", items |-> q]
Dict(d) == [t |-> "dict", d |-> d]
Concat(parts) == [t |-> "str", parts |-> parts]
EmptyDict == <<>>

\* len(v): the length of a list; of another value, unevaluated
PyLen(v) == IF v.t = "list" THEN PyInt(Len(v.items)) ELSE [t |-> "len", of |-> v]

\* dict.get(key, default)
Get(d, key, default) == IF key \in DOMAIN d THEN d[key] ELSE default

\* Python truthiness, as used by `not x` and `if x:`
Truthy(v) ==
    CASE v.t = "none" -> FALSE
      [] v.t = "str" -> v # Str("")
      [] v.t = "list" -> Len(v.items) > 0
      [] v.t = "dict" -> DOMAIN v.d # {}
      [] OTHER -> TRUE

\* sep.join(items), as the sequence of the pieces of the resulting string
RECURSIVE Join(_, _)
Join(items, sep) ==
    IF Len(items) = 0 THEN <<>>
    ELSE IF Len(items) = 1 THEN <<items[1]>>
    ELSE <<items[1], sep>> \o Join(Tail(items), sep)

SeqsUpTo(S, n) == UNION {[1..k -> S] : k \in 0..n}

\* An exception: its class and str(e) as the sequence of its pieces
Exception(type, msg) == [type |-> type, msg |-> msg]
RuntimeError(msg) == Exception("RuntimeError", msg)

\* How a block of code ends
Return(v) == [how |-> "return", value |-> v]
Raise(e) == [how |-> "raise", exc |-> e]
Await(req) == [how |-> "await", request |-> req]

Info(msg) == [level |-> "INFO", msg |-> msg]
Error(msg) == [level |-> "ERROR", msg |-> msg]

-----------------------------------------------------------------------------
(* Configuration *)

PrimaryModel == Str("anthropic.claude-3-7-sonnet-20250219-v1:0")
Gpt4o == Str("gpt-4o")
\* line 32: the proxy URL when the environment sets none
DefaultProxyUrl == Str("http://localhost:4000")

DefaultTemperature == 7
DefaultMaxTokens == 1000
StatusOK == 200

\* A variant of validate_model that accepts every identifier that starts
\* with an allow-listed one
validate_model_prefix(model) ==
    \E i \in DOMAIN SUPPORTED_MODELS :
        \/ SUPPORTED_MODELS[i] = model
        \/ SUPPORTED_MODELS[i] = Gpt4o /\ model = Str("gpt-4o-mini")

\* lines 67-69
validate_model(model) ==
    \E i \in DOMAIN SUPPORTED_MODELS : SUPPORTED_MODELS[i] = model

\* A variant of complete_model_enum with the identifiers written out
complete_model_enum_written_out == <<PrimaryModel, Gpt4o, Str("gpt-4o-mini")>>

\* lines 83-88: the enum of the model property in the schema of the complete
\* tool that list_tools publishes
complete_model_enum == SUPPORTED_MODELS

\* A variant of messages_invalid without the isinstance test
messages_invalid_empty_only(messages) == ~Truthy(messages)

\* line 158: `not messages or not isinstance(messages, list)`
messages_invalid(messages) == ~Truthy(messages) \/ messages.t # "list"

\* A variant of uses_direct_call that sends every model to the proxy directly
uses_direct_call_always(model) == TRUE

\* line 164: the model that takes the direct proxy call
uses_direct_call(model) == model = PrimaryModel

\* A variant of payload that leaves the stream field out
payload_without_stream(model, messages, temperature, max_tokens, stream) ==
    [model |-> model, messages |-> messages, temperature |-> temperature,
     max_tokens |-> max_tokens]

\* lines 205-211: the JSON body of the direct call
payload(model, messages, temperature, max_tokens, stream) ==
    [model |-> model, messages |-> messages, temperature |-> temperature,
     max_tokens |-> max_tokens, stream |-> stream]

\* lines 213-216
headers ==
    [ContentType |-> Str("application/json"),
     Authorization |-> Concat(<<Str("Bearer "), LITELLM_API_KEY>>)]

\* lines 225-229: HTTP_CLIENT.post(url, json=payload, headers=headers)
post(body) ==
    [via |-> "HTTP_CLIENT.post",
     client |-> HTTP_CLIENT.id,
     url |-> Concat(<<LITELLM_PROXY_URL, Str("/v1/chat/completions")>>),
     json |-> body, headers |-> headers]

\* A variant of completion_params that keeps only the last message of the
\* conversation
completion_params_last_message(model, messages, temperature, max_tokens, stream) ==
    [model |-> model,
     messages |-> IF messages.t # "list" \/ messages.items = <<>> THEN messages
                  ELSE List(<<messages.items[Len(messages.items)]>>),
     temperature |-> temperature, max_tokens |-> max_tokens, stream |-> stream]
    @@ (IF Truthy(LITELLM_API_KEY) THEN [api_key |-> LITELLM_API_KEY] ELSE EmptyDict)

\* lines 168-178: the keyword arguments of the library call
completion_params(model, messages, temperature, max_tokens, stream) ==
    [model |-> model, messages |-> messages, temperature |-> temperature,
     max_tokens |-> max_tokens, stream |-> stream]
    @@ (IF Truthy(LITELLM_API_KEY) THEN [api_key |-> LITELLM_API_KEY] ELSE EmptyDict)

\* line 180: completion(**completion_params)
completion(params) == [via |-> "completion", params |-> params]

\* lines 197-199: the handler's `except Exception as e`
completion_except(e) ==
    [end |-> Raise(RuntimeError(<<Str("LLM API error: ")>> \o e.msg)),
     log |-> <<Error(<<Str("Error during LiteLLM completion: ")>> \o e.msg)>>]

\* A variant of _call_proxy_direct_begin that refuses to call the proxy
\* without a bearer token
_call_proxy_direct_begin_requires_key(model, messages, temperature, max_tokens, stream) ==
    IF ~Truthy(LITELLM_API_KEY)
    THEN [end |-> Raise(RuntimeError(<<Str("LITELLM_API_KEY is not set")>>)),
          log |-> <<>>]
    ELSE [end |-> Await(post(payload(model, messages, temperature, max_tokens, stream))),
          log |-> <<Info(<<Str("Calling proxy at: "), LITELLM_PROXY_URL,
                           Str("/v1/chat/completions")>>),
                    Info(<<Str("Model: "), model>>),
                    Info(<<Str("Request timeout: 120s")>>),
                    Info(<<Str("Payload size")>>)>>]

\* lines 201-229: _call_proxy_direct up to the awaited post
_call_proxy_direct_begin(model, messages, temperature, max_tokens, stream) ==
    [end |-> Await(post(payload(model, messages, temperature, max_tokens, stream))),
     log |-> <<Info(<<Str("Calling proxy at: "), LITELLM_PROXY_URL,
                      Str("/v1/chat/completions")>>),
               Info(<<Str("Model: "), model>>),
               Info(<<Str("Request timeout: 120s")>>),
               Info(<<Str("Payload size")>>)>>]

\* A variant of _handle_completion_begin that tests the messages before the
\* model
_handle_completion_begin_messages_first(arguments) ==
    LET model == Get(arguments, "model", PrimaryModel)
        messages == Get(arguments, "messages", List(<<>>))
        temperature == Get(arguments, "temperature", DefaultTemperature)
        max_tokens == Get(arguments, "max_tokens", DefaultMaxTokens)
        stream == Get(arguments, "stream", FALSE)
        line161 == Info(<<Str("Model: "), model, Str(", Messages count: "),
                          PyLen(messages), Str(", Temperature, Stream")>>)
    IN  IF messages_invalid(messages)
        THEN completion_except(RuntimeError(<<Str("Messages must be a non-empty list")>>))
        ELSE IF ~validate_model(model)
        THEN completion_except(RuntimeError(
                 <<Str("Unsupported model: "), model, Str(". Supported models: ")>>
                 \o Join(SUPPORTED_MODELS, Str(", "))))
        ELSE IF uses_direct_call(model)
        THEN LET b == _call_proxy_direct_begin(model, messages, temperature,
                                              max_tokens, stream)
             IN  [end |-> b.end, log |-> <<line161>> \o b.log]
        ELSE [end |-> Await(completion(completion_params(model, messages, temperature,
                                                         max_tokens, stream))),
              log |-> <<line161>>]

\* lines 146-180: _handle_completion up to the call of the transport
_handle_completion_begin(arguments) ==
    LET model == Get(arguments, "model", PrimaryModel)
        messages == Get(arguments, "messages", List(<<>>))
        temperature == Get(arguments, "temperature", DefaultTemperature)
        max_tokens == Get(arguments, "max_tokens", DefaultMaxTokens)
        stream == Get(arguments, "stream", FALSE)
        line161 == Info(<<Str("Model: "), model, Str(", Messages count: "),
                          PyLen(messages), Str(", Temperature, Stream")>>)
    IN  IF ~validate_model(model)
        THEN completion_except(RuntimeError(
                 <<Str("Unsupported model: "), model, Str(". Supported models: ")>>
                 \o Join(SUPPORTED_MODELS, Str(", "))))
        ELSE IF messages_invalid(messages)
        THEN completion_except(RuntimeError(<<Str("Messages must be a non-empty list")>>))
        ELSE IF uses_direct_call(model)
        THEN LET b == _call_proxy_direct_begin(model, messages, temperature,
                                              max_tokens, stream)
             IN  [end |-> b.end, log |-> <<line161>> \o b.log]
        ELSE [end |-> Await(completion(completion_params(model, messages, temperature,
                                                         max_tokens, stream))),
              log |-> <<line161>>]

\* isinstance(e, httpx.TimeoutException): the class and its subclasses
IsTimeoutException(e) ==
    e.type \in {"httpx.ConnectTimeout", "httpx.ReadTimeout",
                "httpx.WriteTimeout", "httpx.PoolTimeout"}

\* isinstance(e, httpx.ConnectError)
IsConnectError(e) == e.type = "httpx.ConnectError"

\* A variant of status_ok that takes only a server error for a failure
status_ok_below_500(status_code) == status_code < 500

\* line 233: `response.status_code == 200`
status_ok(status_code) == status_code = StatusOK

\* lines 231-240: the body of the try block after the post has returned;
\* response.json() raises when the body is not JSON
_call_proxy_direct_try(model, outcome) ==
    IF outcome.kind = "raise"
    THEN [end |-> Raise(outcome.exc), log |-> <<>>]
    ELSE LET line231 == Info(<<Str("Proxy response status: "),
                               PyInt(outcome.status_code)>>)
         IN  IF status_ok(outcome.status_code)
             THEN IF outcome.json.t = "invalid"
                  THEN [end |-> Raise(Exception("json.JSONDecodeError",
                                                <<Str("Expecting value")>>)),
                        log |-> <<line231>>]
                  ELSE [end |-> Return(outcome.json),
                        log |-> <<line231,
                                  Info(<<Str("Successfully received response from "),
                                         model>>)>>]
             ELSE [end |-> Raise(RuntimeError(<<Str("Proxy error: "),
                                               PyInt(outcome.status_code),
                                               Str(" - "), outcome.text>>)),
                   log |-> <<line231,
                             Error(<<Str("Proxy returned error status: "),
                                     PyInt(outcome.status_code)>>),
                             Error(<<Str("Response text: "), outcome.text>>)>>]

\* lines 242-252: the except clauses of _call_proxy_direct, tried in order
_call_proxy_direct_except(model, e) ==
    IF IsTimeoutException(e)
    THEN [end |-> Raise(RuntimeError(<<Str("Proxy timeout error: ")>> \o e.msg)),
          log |-> <<Error(<<Str("Timeout error calling proxy: ")>> \o e.msg),
                    Error(<<Str("Request may have been too complex for "), model>>)>>]
    ELSE IF IsConnectError(e)
    THEN [end |-> Raise(RuntimeError(<<Str("Proxy connection error: ")>> \o e.msg)),
          log |-> <<Error(<<Str("Connection error calling proxy: ")>> \o e.msg)>>]
    ELSE [end |-> Raise(RuntimeError(<<Str("Proxy call error: ")>> \o e.msg)),
          log |-> <<Error(<<Str("Error calling proxy directly: ")>> \o e.msg),
                    Error(<<Str("Exception type: "), Str(e.type)>>)>>]

\* A variant of _call_proxy_direct_resume that posts the request again when
\* the post raised
_call_proxy_direct_resume_retry(request, outcome) ==
    LET model == request.json.model
        b == _call_proxy_direct_try(model, outcome)
    IN  IF outcome.kind = "raise"
        THEN [end |-> Await(request), log |-> b.log]
        ELSE IF b.end.how = "raise"
        THEN LET h == _call_proxy_direct_except(model, b.end.exc)
             IN  [end |-> h.end, log |-> b.log \o h.log]
        ELSE b

\* lines 218-252: _call_proxy_direct from the return of the post on
_call_proxy_direct_resume(request, outcome) ==
    LET model == request.json.model
        b == _call_proxy_direct_try(model, outcome)
    IN  IF b.end.how = "raise"
        THEN LET h == _call_proxy_direct_except(model, b.end.exc)
             IN  [end |-> h.end, log |-> b.log \o h.log]
        ELSE b

\* line 180: the library call returns its response or raises
completion_resume(request, outcome) ==
    IF outcome.kind = "raise"
    THEN [end |-> Raise(outcome.exc), log |-> <<>>]
    ELSE [end |-> Return(outcome.json), log |-> <<>>]

\* A variant of first_choice_text that reads the last choice
first_choice_text_last(choices) ==
    Get(Get(choices.items[Len(choices.items)], "message", EmptyDict), "content",
        Str("Error: No response content."))

\* line 187: choices[0].get("message", {}).get("content", "Error: No response content.")
first_choice_text(choices) ==
    Get(Get(choices.items[1], "message", EmptyDict), "content",
        Str("Error: No response content."))

\* TextContent(type="text", text=text): pydantic refuses a text that is no str
TextContent(text) ==
    IF text.t = "str"
    THEN Return(<<[type |-> "text", text |-> text]>>)
    ELSE Raise(Exception("pydantic.ValidationError",
                         <<Str("1 validation error for TextContent")>>))

\* A variant of no_choices that tests for None alone
no_choices_none_only(choices) == choices = None

\* line 184: `not choices`
no_choices(choices) == ~Truthy(choices)

\* lines 182-195: extract the response text; choices[0] of an empty list
\* is an IndexError, and usage.get of a usage that is no dict an AttributeError
extract_response(response) ==
    IF response.t # "dict"
    THEN [end |-> Raise(Exception("AttributeError",
                                  <<Str("object has no attribute 'get'")>>)),
          log |-> <<>>]
    ELSE LET choices == Get(response.d, "choices", List(<<>>))
             usage == Get(response.d, "usage", Dict(EmptyDict))
         IN  IF no_choices(choices)
             THEN [end |-> Raise(RuntimeError(
                               <<Str("No choices returned from the model")>>)),
                   log |-> <<>>]
             ELSE IF Len(choices.items) = 0
             THEN [end |-> Raise(Exception("IndexError",
                                           <<Str("list index out of range")>>)),
                   log |-> <<>>]
             ELSE IF Truthy(usage) /\ usage.t # "dict"
             THEN [end |-> Raise(Exception("AttributeError",
                                           <<Str("object has no attribute 'get'")>>)),
                   log |-> <<>>]
             ELSE [end |-> TextContent(first_choice_text(choices)),
                   log |-> IF Truthy(usage)
                           THEN <<Info(<<Str("Usage - Tokens: "),
                                         Get(usage.d, "total_tokens", Str("unknown"))>>)>>
                           ELSE <<>>]

\* lines 165-199: _handle_completion from the return of the transport on
_handle_completion_resume(request, outcome) ==
    LET b == IF request.via = "HTTP_CLIENT.post"
             THEN _call_proxy_direct_resume(request, outcome)
             ELSE completion_resume(request, outcome)
    IN  IF b.end.how = "return"
        THEN LET x == extract_response(b.end.value)
             IN  IF x.end.how = "raise"
                 THEN LET h == completion_except(x.end.exc)
                      IN  [end |-> h.end, log |-> b.log \o x.log \o h.log]
                 ELSE [end |-> x.end, log |-> b.log \o x.log]
        ELSE IF b.end.how = "raise"
        THEN LET h == completion_except(b.end.exc)
             IN  [end |-> h.end, log |-> b.log \o h.log]
        ELSE b

\* A variant of _handle_list_models that skips the first model
_handle_list_models_skip_first ==
    LET models == Tail(SUPPORTED_MODELS)
        bullets == [i \in DOMAIN models |-> Concat(<<Str("- "), models[i]>>)]
        models_text ==
            <<Str("Available models in this MCP server:\n")>>
            \o Join(bullets, Str("\n"))
            \o <<Str("\n\nNote: Only these two models are supported for security and performance reasons.")>>
    IN  [end |-> Return(<<[type |-> "text", text |-> Concat(models_text)]>>),
         log |-> <<>>]

\* lines 254-266: _handle_list_models
_handle_list_models ==
    LET bullets == [i \in DOMAIN SUPPORTED_MODELS |->
                        Concat(<<Str("- "), SUPPORTED_MODELS[i]>>)]
        models_text ==
            <<Str("Available models in this MCP server:\n")>>
            \o Join(bullets, Str("\n"))
            \o <<Str("\n\nNote: Only these two models are supported for security and performance reasons.")>>
    IN  [end |-> Return(<<[type |-> "text", text |-> Concat(models_text)]>>),
         log |-> <<>>]

\* A variant of call_tool that matches the tool name whatever its case
call_tool_any_case(name, arguments) ==
    IF name \in {"complete", "Complete"} THEN _handle_completion_begin(arguments)
    ELSE IF name = "list_models" THEN _handle_list_models
    ELSE [end |-> Raise(RuntimeError(<<Str("Unknown tool: "), Str(name)>>)),
          log |-> <<>>]

\* lines 130-140: call_tool
call_tool(name, arguments) ==
    IF name = "complete" THEN _handle_completion_begin(arguments)
    ELSE IF name = "list_models" THEN _handle_list_models
    ELSE [end |-> Raise(RuntimeError(<<Str("Unknown tool: "), Str(name)>>)),
          log |-> <<>>]

-----------------------------------------------------------------------------
(* The inputs: tool requests, and what the proxy or the library answers *)

ToolNames == {"complete", "list_models", "delete_model", "Complete"}

ModelValues ==
    {PrimaryModel, Gpt4o, Str("unknown-model-x"), Str("gpt-4o-mini"), Str(""), None}

UserMessage == [role |-> Str("user"), content |-> Str("2+2?")]
AssistantMessage == [role |-> Str("assistant"), content |-> Str("4")]
MessageEntries == {UserMessage, AssistantMessage, [role |-> Str("user")]}

MessagesValues ==
    {List(q) : q \in SeqsUpTo(MessageEntries, MaxMessages)}
    \cup {Str("This is not a list"), None}

Options ==
    {EmptyDict,
     [temperature |-> 1, max_tokens |-> 50],
     [temperature |-> 30, max_tokens |-> 0, stream |-> TRUE]}

Arguments ==
    {m @@ s @@ o :
        m \in {EmptyDict} \cup {[model |-> v] : v \in ModelValues},
        s \in {EmptyDict} \cup {[messages |-> v] : v \in MessagesValues},
        o \in Options}

ArgumentsOf(name) ==
    IF name = "complete" THEN Arguments
    ELSE IF name = "list_models" THEN {EmptyDict}
    ELSE {EmptyDict, [model |-> Gpt4o, messages |-> List(<<UserMessage>>)]}

Choice(content) == [message |-> [content |-> content]]
ChoiceEntries == {Choice(Str("4")), Choice(Str("5")), Choice(None), EmptyDict}

ResponseDicts ==
    {c @@ u :
        c \in {EmptyDict, [choices |-> None]}
              \cup {[choices |-> List(q)] : q \in SeqsUpTo(ChoiceEntries, MaxChoices)},
        u \in {EmptyDict, [usage |-> Dict([total_tokens |-> PyInt(42)])]}}

NotJson == [t |-> "invalid"]
StreamWrapper == [t |-> "stream"]

Raised(type, text) == [kind |-> "raise", exc |-> Exception(type, <<Str(text)>>)]

Response(status_code, text, json) ==
    [kind |-> "response", status_code |-> status_code, text |-> text, json |-> json]

\* what `await HTTP_CLIENT.post(...)` can give
PostOutcomes ==
    {Response(200, Str("{...}"), Dict(d)) : d \in ResponseDicts}
    \cup {Response(200, Str("[]"), List(<<>>)),
          Response(200, Str("{...}"), Dict([choices |-> List(<<Choice(Str("4"))>>),
                                            usage |-> Str("n/a")])),
          Response(200, Str("data: [DONE]"), NotJson),
          Response(201, Str("{...}"), Dict([choices |-> List(<<Choice(Str("4"))>>)])),
          Response(204, Str(""), NotJson),
          Response(401, Str("Unauthorized"), NotJson),
          Response(500, Str("server error"), NotJson),
          Raised("httpx.ReadTimeout", "timed out"),
          Raised("httpx.ConnectTimeout", "timed out"),
          Raised("httpx.ConnectError", "All connection attempts failed"),
          Raised("httpx.ReadError", "")}

\* what `completion(**completion_params)` can give; with stream=True the
\* library may hand back a stream wrapper instead of a response
AllCompletionOutcomes ==
    {[kind |-> "return", json |-> Dict(d)] : d \in ResponseDicts}
    \cup {[kind |-> "return", json |-> StreamWrapper],
          Raised("litellm.Timeout", "litellm.Timeout: Request timed out"),
          Raised("litellm.APIConnectionError", "litellm.APIConnectionError: Connection error"),
          Raised("litellm.AuthenticationError", "litellm.AuthenticationError: 401")}

CompletionOutcomes(request) ==
    {o \in AllCompletionOutcomes :
        (o.kind = "return" /\ o.json = StreamWrapper) => request.params.stream = TRUE}

-----------------------------------------------------------------------------
(* The server process: main, run_server_stdio, run_server_http *)

\* the command lines: the options given, by name
Argvs ==
    {EmptyDict,
     [transport |-> "stdio"],
     [transport |-> "http"],
     [transport |-> "http", port |-> "9000"],
     [transport |-> "bogus"],
     [port |-> "abc"]}

\* lines 332-338: parser.parse_args(); argparse ends the process (SystemExit)
\* on a --transport outside the choices and on a --port that is no integer
parse_args(argv) ==
    LET transport == Get(argv, "transport", "stdio")
        port == Get(argv, "port", "8001")
    IN  IF transport \notin {"stdio", "http"} \/ port \notin {"8001", "9000"}
        THEN Raise(Exception("SystemExit", <<Str("2")>>))
        ELSE Return([transport |-> transport, port |-> port])

\* lines 281 and 326: await HTTP_CLIENT.aclose()
aclose(client) == [client EXCEPT !.is_closed = TRUE]

\* lines 39-43 and 47-51: httpx.AsyncClient(timeout=..., limits=..., http2=...);
\* asked for HTTP/2 without the h2 package the constructor raises ImportError.
\* id tells the client objects of the process apart.
AsyncClient(id, http2, h2_installed) ==
    IF http2 /\ ~h2_installed
    THEN Raise(Exception("ImportError",
                         <<Str("Using http2=True, but the 'h2' package is not installed")>>))
    ELSE Return([id |-> id, http2 |-> http2, is_closed |-> FALSE])

\* A variant of create_http_client without the fallback to HTTP/1.1
create_http_client_http2_only(h2_installed) == AsyncClient(1, TRUE, h2_installed)

\* lines 36-52: the try / except ImportError that binds HTTP_CLIENT
create_http_client(h2_installed) ==
    LET first == AsyncClient(1, TRUE, h2_installed)
    IN  IF first.how = "raise" /\ first.exc.type = "ImportError"
        THEN AsyncClient(1, FALSE, h2_installed)
        ELSE first

\* HTTP_CLIENT when the import of the module failed before binding it
NoClient == [id |-> 0, http2 |-> FALSE, is_closed |-> TRUE]

\* performance_config.py lines 26-37: one entry of the per-model table
ModelConfig(preferred_timeout) ==
    [default_max_tokens |-> 1000, default_temperature |-> 7,
     enable_streaming |-> TRUE, preferred_timeout |-> preferred_timeout]

\* performance_config.py lines 58-73
get_model_config(model) ==
    IF model.t = "str" /\ model.s \in DOMAIN MODEL_PERFORMANCE_CONFIG
    THEN MODEL_PERFORMANCE_CONFIG[model.s]
    ELSE ModelConfig(60)

\* the module has been imported (or its import has failed): main has not run
Imported(h2_installed, client) ==
    [phase |-> IF client.how = "return" THEN "imported" ELSE "import failed",
     h2_installed |-> h2_installed,
     transport |-> "none", acloses |-> <<>>,
     exit |-> IF client.how = "return" THEN "none" ELSE client.exc.type]

\* lines 328-346: main up to asyncio.run
Main(argv) ==
    /\ server.phase = "imported"
    /\ LET args == parse_args(argv)
       IN  IF args.how = "raise"
           THEN server' = [server EXCEPT !.phase = "exited", !.exit = "SystemExit"]
           ELSE server' = [server EXCEPT !.phase = "starting",
                                         !.transport = args.value.transport]
    /\ UNCHANGED <<settings, HTTP_CLIENT, callers,
                   pc, call, sent, reply, result, log, blocking>>

\* lines 276-277 and 291-321: the try block sets the transport up (stdio_server(),
\* StreamableHTTPServerTransport, import uvicorn); when that raises, the
\* finally clause closes the client
StartServer(ok) ==
    /\ server.phase = "starting"
    /\ IF ok
       THEN /\ server' = [server EXCEPT !.phase = "serving"]
            /\ HTTP_CLIENT' = HTTP_CLIENT
       ELSE /\ server' = [server EXCEPT !.phase = "exited", !.exit = "startup error",
                                        !.acloses = Append(@, "finally")]
            /\ HTTP_CLIENT' = aclose(HTTP_CLIENT)
    /\ UNCHANGED <<settings, callers,
                   pc, call, sent, reply, result, log, blocking>>

\* lines 278-281 and 322-326: app.run / server.serve ends or raises, and the
\* finally clause closes the client
StopServer(how) ==
    /\ server.phase = "serving"
    /\ blocking = {}
    /\ server' = [server EXCEPT !.phase = "exited", !.exit = how,
                                !.acloses = Append(@, "finally")]
    /\ HTTP_CLIENT' = aclose(HTTP_CLIENT)
    /\ UNCHANGED <<settings, callers,
                   pc, call, sent, reply, result, log, blocking>>

\* lines 277-278: tool requests reach call_tool through app.run, which only
\* run_server_stdio calls
Routed == server.phase = "serving" /\ server.transport = "stdio"

-----------------------------------------------------------------------------
(* The state machine *)

NoCall == [name |-> "", arguments |-> EmptyDict]
NoReply == [kind |-> "none"]
NoResult == [how |-> "none"]

Init ==
    /\ SUPPORTED_MODELS = <<PrimaryModel, Gpt4o>>
    /\ MODEL_PERFORMANCE_CONFIG = ("gpt-4o" :> ModelConfig(45))
                                  @@ (PrimaryModel.s :> ModelConfig(60))
    /\ LITELLM_PROXY_URL = DefaultProxyUrl
    /\ LITELLM_API_KEY \in {None, Str("sk-1234")}
    /\ \E h2_installed \in BOOLEAN :
           LET client == create_http_client(h2_installed)
           IN  /\ HTTP_CLIENT = IF client.how = "return" THEN client.value ELSE NoClient
               /\ server = Imported(h2_installed, client)
    /\ pc = [t \in Tasks |-> "idle"]
    /\ call = [t \in Tasks |-> NoCall]
    /\ sent = [t \in Tasks |-> <<>>]
    /\ reply = [t \in Tasks |-> NoReply]
    /\ result = [t \in Tasks |-> NoResult]
    /\ log = [t \in Tasks |-> <<>>]
    /\ blocking = {}
    /\ http_request = [t \in Tasks |-> NoCall]
    /\ conversation_history = <<>>

\* A variant of Proceed that keeps the result in one slot shared by all calls:
\* a call that ends overwrites the result of every call not yet handed over
Proceed_shared_result(t, b) ==
    /\ log' = [log EXCEPT ![t] = @ \o b.log]
    /\ IF b.end.how = "await"
       THEN /\ sent' = [sent EXCEPT ![t] = Append(@, b.end.request)]
            /\ result' = result
            /\ IF b.end.request.via = "completion"
               THEN pc' = [pc EXCEPT ![t] = "in_completion"] /\ blocking' = {t}
               ELSE pc' = [pc EXCEPT ![t] = "awaiting_post"] /\ blocking' = {}
       ELSE /\ sent' = sent
            /\ result' = [u \in Tasks |->
                             IF u = t \/ pc[u] = "done" THEN b.end ELSE result[u]]
            /\ pc' = [pc EXCEPT ![t] = "done"]
            /\ blocking' = {}

\* Task t runs on to the end b of a block of code: it returns or raises, or
\* it hands a request to the transport.  The post is awaited (the event
\* loop is free); the library call is synchronous (it holds the event loop).
Proceed(t, b) ==
    /\ log' = [log EXCEPT ![t] = @ \o b.log]
    /\ IF b.end.how = "await"
       THEN /\ sent' = [sent EXCEPT ![t] = Append(@, b.end.request)]
            /\ result' = result
            /\ IF b.end.request.via = "completion"
               THEN pc' = [pc EXCEPT ![t] = "in_completion"] /\ blocking' = {t}
               ELSE pc' = [pc EXCEPT ![t] = "awaiting_post"] /\ blocking' = {}
       ELSE /\ sent' = sent
            /\ result' = [result EXCEPT ![t] = b.end]
            /\ pc' = [pc EXCEPT ![t] = "done"]
            /\ blocking' = {}

\* A tool request arrives and call_tool runs up to its first suspension
CallTool(t, name, arguments) ==
    /\ pc[t] = "idle"
    /\ blocking = {}
    /\ call' = [call EXCEPT ![t] = [name |-> name, arguments |-> arguments]]
    /\ Proceed(t, call_tool(name, arguments))
    /\ UNCHANGED <<globals, callers, reply>>

\* A variant of PostReturns that closes the shared client when the post raised
PostReturns_closing_client(t, outcome) ==
    /\ pc[t] = "awaiting_post"
    /\ blocking = {}
    /\ reply' = [reply EXCEPT ![t] = outcome]
    /\ Proceed(t, _handle_completion_resume(sent[t][Len(sent[t])], outcome))
    /\ HTTP_CLIENT' = IF outcome.kind = "raise" THEN aclose(HTTP_CLIENT) ELSE HTTP_CLIENT
    /\ UNCHANGED <<settings, server, callers, call>>

\* The awaited post completes and the handler runs to its end
PostReturns(t, outcome) ==
    /\ pc[t] = "awaiting_post"
    /\ blocking = {}
    /\ reply' = [reply EXCEPT ![t] = outcome]
    /\ Proceed(t, _handle_completion_resume(sent[t][Len(sent[t])], outcome))
    /\ UNCHANGED <<globals, callers, call>>

\* The synchronous library call completes and the handler runs to its end
CompletionReturns(t, outcome) ==
    /\ pc[t] = "in_completion"
    /\ blocking = {t}
    /\ outcome \in CompletionOutcomes(sent[t][Len(sent[t])])
    /\ reply' = [reply EXCEPT ![t] = outcome]
    /\ Proceed(t, _handle_completion_resume(sent[t][Len(sent[t])], outcome))
    /\ UNCHANGED <<globals, callers, call>>

\* lines 299-301: the ASGI app of run_server_http gets an HTTP request that
\* carries a tool request and hands it to transport.handle_request
asgi_app(t, name, arguments) ==
    /\ server.phase = "serving" /\ server.transport = "http"
    /\ pc[t] = "idle"
    /\ blocking = {}
    /\ http_request' = [http_request EXCEPT ![t] = [name |-> name, arguments |-> arguments]]
    /\ pc' = [pc EXCEPT ![t] = "in_transport"]
    /\ UNCHANGED <<globals, conversation_history, call, sent, reply, result, log, blocking>>

\* lines 293-296 and 301: the transport object is built but never connected
\* to `app` (run_server_http has no transport.connect() and no app.run), so
\* the request is answered by the transport alone, with an error
TransportAnswers(t) ==
    /\ server.phase = "serving"
    /\ pc[t] = "in_transport"
    /\ blocking = {}
    /\ result' = [result EXCEPT ![t] =
                     Raise(Exception("TransportError",
                                     <<Str("the transport is not connected to the server")>>))]
    /\ pc' = [pc EXCEPT ![t] = "done"]
    /\ UNCHANGED <<globals, callers, call, sent, reply, log, blocking>>

\* The result goes back to the caller and the task ends
Deliver(t) ==
    /\ pc[t] = "done"
    /\ blocking = {}
    /\ pc' = [pc EXCEPT ![t] = "idle"]
    /\ call' = [call EXCEPT ![t] = NoCall]
    /\ sent' = [sent EXCEPT ![t] = <<>>]
    /\ reply' = [reply EXCEPT ![t] = NoReply]
    /\ result' = [result EXCEPT ![t] = NoResult]
    /\ log' = [log EXCEPT ![t] = <<>>]
    /\ http_request' = [http_request EXCEPT ![t] = NoCall]
    /\ UNCHANGED <<globals, blocking, conversation_history>>

\* Spec: the tool requests are served one at a time, with every shape of
\* request and of answer
Next ==
    \E t \in {1} :
        \/ \E name \in ToolNames : \E arguments \in ArgumentsOf(name) :
               CallTool(t, name, arguments)
        \/ \E outcome \in PostOutcomes : PostReturns(t, outcome)
        \/ \E outcome \in AllCompletionOutcomes : CompletionReturns(t, outcome)
        \/ Deliver(t)

Spec == Init /\ [][Next]_vars

\* The running server: main starts it, the event loop serves the tool calls of
\* all tasks concurrently, and it stops.  The calls are a few typical ones.
ServedArguments ==
    {[model |-> m, messages |-> List(<<UserMessage>>)] : m \in {PrimaryModel, Gpt4o}}
    \cup {[model |-> Str("unknown-model-x"), messages |-> List(<<UserMessage>>)]}

ServedPostOutcomes ==
    {Response(200, Str("{...}"), Dict([choices |-> List(<<Choice(Str("4"))>>)])),
     Response(200, Str("{...}"), Dict([choices |-> List(<<Choice(Str("5"))>>)])),
     Response(500, Str("server error"), NotJson),
     Raised("httpx.ReadTimeout", "The read operation timed out")}

ServedCompletionOutcomes ==
    {[kind |-> "return", json |-> Dict([choices |-> List(<<Choice(Str("4"))>>)])],
     [kind |-> "return", json |-> Dict([choices |-> List(<<Choice(Str("5"))>>)])],
     Raised("litellm.Timeout", "litellm.Timeout: Request timed out")}

NextServer ==
    \/ \E argv \in Argvs : Main(argv)
    \/ \E ok \in BOOLEAN : StartServer(ok)
    \/ \E how \in {"end of input", "exception"} : StopServer(how)
    \/ \E t \in Tasks, arguments \in ServedArguments :
           Routed /\ CallTool(t, "complete", arguments)
    \/ \E t \in Tasks : Routed /\ CallTool(t, "list_models", EmptyDict)
    \/ \E t \in Tasks, outcome \in ServedPostOutcomes :
           Routed /\ PostReturns(t, outcome)
    \/ \E t \in Tasks, outcome \in ServedCompletionOutcomes :
           Routed /\ CompletionReturns(t, outcome)
    \/ \E t \in Tasks, arguments \in ServedArguments : asgi_app(t, "complete", arguments)
    \/ \E t \in Tasks : asgi_app(t, "list_models", EmptyDict)
    \/ \E t \in Tasks : TransportAnswers(t)
    \/ \E t \in Tasks : server.phase = "serving" /\ Deliver(t)

SpecServer == Init /\ [][NextServer]_vars

-----------------------------------------------------------------------------
(* The chat loop: claude_cli.py, claude_chat *)

\* claude_cli.py line 16
DEFAULT_CLAUDE_MODEL == Str("anthropic.claude-3-7-sonnet-20250219-v1:0")

\* what the user types at the prompt
UserInputs == {"quit", "help", "clear", "CLEAR", "history", "", "2+2?"}

\* str.lower() on the inputs
lower(user_input) == IF user_input = "CLEAR" THEN "clear" ELSE user_input

\* claude_cli.py lines 31-57: the input is a command or empty; quit leaves
\* the loop, clear rebinds the history to an empty list, the others continue
ChatCommand(t, user_input) ==
    /\ pc[t] = "idle"
    /\ \/ lower(user_input) \in {"quit", "exit", "q", "help", "clear", "history"}
       \/ user_input = ""
    /\ pc' = IF lower(user_input) \in {"quit", "exit", "q"}
             THEN [pc EXCEPT ![t] = "quit"] ELSE pc
    /\ conversation_history' =
           IF lower(user_input) = "clear" THEN <<>> ELSE conversation_history
    /\ UNCHANGED <<globals, http_request, call, sent, reply, result, log, blocking>>

\* claude_cli.py lines 59-70: the input is a message; it is appended to the
\* history and _handle_completion is awaited with the history as messages
ChatMessage(t, user_input) ==
    /\ pc[t] = "idle"
    /\ lower(user_input) \notin {"quit", "exit", "q", "help", "clear", "history"}
    /\ user_input # ""
    /\ Len(conversation_history) + 2 <= MaxHistory
    /\ conversation_history' =
           Append(conversation_history, [role |-> Str("user"), content |-> Str(user_input)])
    /\ LET arguments == [model |-> DEFAULT_CLAUDE_MODEL,
                         messages |-> List(conversation_history'),
                         temperature |-> DefaultTemperature,
                         max_tokens |-> DefaultMaxTokens]
       IN  /\ call' = [call EXCEPT ![t] = [name |-> "complete", arguments |-> arguments]]
           /\ Proceed(t, _handle_completion_begin(arguments))
    /\ UNCHANGED <<globals, http_request, reply>>

\* claude_cli.py lines 72-84: the awaited call has returned, and its text is
\* appended as the assistant's message, or it has raised, and the except
\* clause prints the error; the loop goes back to the prompt
ChatReply(t) ==
    /\ pc[t] = "done"
    /\ conversation_history' =
           IF result[t].how = "return"
           THEN Append(conversation_history,
                       [role |-> Str("assistant"), content |-> result[t].value[1].text])
           ELSE conversation_history
    /\ pc' = [pc EXCEPT ![t] = "idle"]
    /\ call' = [call EXCEPT ![t] = NoCall]
    /\ sent' = [sent EXCEPT ![t] = <<>>]
    /\ reply' = [reply EXCEPT ![t] = NoReply]
    /\ result' = [result EXCEPT ![t] = NoResult]
    /\ log' = [log EXCEPT ![t] = <<>>]
    /\ UNCHANGED <<globals, http_request, blocking>>

NextChat ==
    \E t \in {1} :
        \/ \E user_input \in UserInputs : ChatCommand(t, user_input)
        \/ \E user_input \in UserInputs : ChatMessage(t, user_input)
        \/ \E outcome \in ServedPostOutcomes : PostReturns(t, outcome)
        \/ ChatReply(t)

SpecChat == Init /\ [][NextChat]_vars

-----------------------------------------------------------------------------
(* Vocabulary of the properties *)

\* lines 62-65: the allow-list as written in the source
AllowList == {PrimaryModel, Gpt4o}

Started(t) == pc[t] # "idle"
Finished(t) == pc[t] = "done"
Completing(t) == Started(t) /\ call[t].name = "complete"
Given(t, key) == key \in DOMAIN call[t].arguments
Arg(t, key) == call[t].arguments[key]

Failed(t) == Finished(t) /\ result[t].how = "raise"
Succeeded(t) == Finished(t) /\ result[t].how = "return"

\* the failure's message holds the pieces `pieces`, in a row
Says(t, pieces) ==
    LET msg == result[t].exc.msg
    IN  \E i \in 0..(Len(msg) - Len(pieces)) :
            \A j \in 1..Len(pieces) : msg[i + j] = pieces[j]

\* the failure kinds, told by the text of the failure
UnsupportedModel(t) == Failed(t) /\ Says(t, <<Str("Unsupported model: ")>>)
InvalidMessages(t) == Failed(t) /\ Says(t, <<Str("Messages must be a non-empty list")>>)
EmptyResponse(t) == Failed(t) /\ Says(t, <<Str("No choices returned from the model")>>)
ProxyError(t) == Failed(t) /\ Says(t, <<Str("Proxy error: ")>>)
ProxyTimeout(t) == Failed(t) /\ Says(t, <<Str("Proxy timeout error: ")>>)
ProxyConnectionError(t) == Failed(t) /\ Says(t, <<Str("Proxy connection error: ")>>)
UnknownOperation(t) == Failed(t) /\ Says(t, <<Str("Unknown tool: ")>>)
\* a failure that carries none of the kinds above, or the catch-all of the
\* direct call
GenericFailure(t) ==
    /\ Failed(t)
    /\ \/ Says(t, <<Str("Proxy call error: ")>>)
       \/ ~(\/ UnsupportedModel(t) \/ InvalidMessages(t) \/ EmptyResponse(t)
            \/ ProxyError(t) \/ ProxyTimeout(t) \/ ProxyConnectionError(t)
            \/ UnknownOperation(t))

\* the transport (the direct post or the library call) was not invoked
NoTransport(t) == sent[t] = <<>>

-----------------------------------------------------------------------------
(* C1 *)

\* C1: a complete request whose model is not in the allow-list ends in an
\* UnsupportedModel failure that names the model, whatever its other
\* arguments, and neither the direct post nor the library call is invoked.
C1_UnsupportedModelNeverReachesTransport ==
    \A t \in Tasks :
        (Completing(t) /\ Given(t, "model") /\ Arg(t, "model") \notin AllowList)
        => /\ UnsupportedModel(t)
           /\ Says(t, <<Str("Unsupported model: "), Arg(t, "model")>>)
           /\ NoTransport(t)

C1_Witness ==
    \E t \in Tasks :
        /\ Completing(t) /\ Given(t, "model") /\ Given(t, "messages")
        /\ Arg(t, "model") = Str("unknown-model-x")
        /\ Arg(t, "messages") = List(<<UserMessage>>)
        /\ UnsupportedModel(t) /\ NoTransport(t)

-----------------------------------------------------------------------------
(* C2 *)

\* an entry of a messages list that lacks role or content, or has it null
BadEntry(m) ==
    \/ "role" \notin DOMAIN m \/ "content" \notin DOMAIN m
    \/ m.role = None \/ m.content = None

HasBadEntry(t) ==
    /\ Given(t, "messages") /\ Arg(t, "messages").t = "list"
    /\ \E i \in DOMAIN Arg(t, "messages").items : BadEntry(Arg(t, "messages").items[i])

\* C2: a complete request with an allow-listed model and a messages list
\* holding an entry without role or content fails with InvalidMessages, and
\* neither the direct post nor the library call is invoked.
C2_BadEntryRejected ==
    \A t \in Tasks :
        (Completing(t) /\ Given(t, "model") /\ Arg(t, "model") \in AllowList
         /\ HasBadEntry(t))
        => InvalidMessages(t) /\ NoTransport(t)

-----------------------------------------------------------------------------
(* C3 *)

MessagesUnusable(t) ==
    \/ ~Given(t, "messages")
    \/ Arg(t, "messages") = List(<<>>)
    \/ Arg(t, "messages").t # "list"

\* C3: a complete request with an allow-listed model whose messages are
\* absent, an empty list or no list at all fails with InvalidMessages, and
\* neither the direct post nor the library call is invoked.
C3_UnusableMessagesRejected ==
    \A t \in Tasks :
        (Completing(t) /\ Given(t, "model") /\ Arg(t, "model") \in AllowList
         /\ MessagesUnusable(t))
        => InvalidMessages(t) /\ NoTransport(t)

C3_Witness ==
    \E t \in Tasks :
        /\ Completing(t) /\ Given(t, "model") /\ Given(t, "messages")
        /\ Arg(t, "model") = Gpt4o
        /\ Arg(t, "messages") = Str("This is not a list")
        /\ InvalidMessages(t) /\ NoTransport(t)

-----------------------------------------------------------------------------
(* C4 *)

\* the value a request gives for `key`, or the default of the tool schema
ValueOf(t, key, default) == IF Given(t, key) THEN Arg(t, key) ELSE default
ModelOf(t) == ValueOf(t, "model", PrimaryModel)

\* the request passes the validation of lines 153-159
PassesValidation(t) ==
    /\ Completing(t)
    /\ ModelOf(t) \in AllowList
    /\ Given(t, "messages")
    /\ Arg(t, "messages").t = "list"
    /\ Arg(t, "messages").items # <<>>

Direct(r) == r.via = "HTTP_CLIENT.post"
Library(r) == r.via = "completion"
\* the five values a transport invocation carries
Carried(r) == IF Direct(r) THEN r.json ELSE r.params

\* C4: a request that passes validation takes exactly one call path, the
\* direct post if and only if its model is the primary model and the library
\* call if and only if it is another allow-listed model, and the path gets
\* the request's model, messages, temperature, max_tokens and stream.
C4_ExactlyOnePathWithSameValues ==
    \A t \in Tasks :
        PassesValidation(t)
        => /\ Len(sent[t]) = 1
           /\ Direct(sent[t][1]) <=> ModelOf(t) = PrimaryModel
           /\ Library(sent[t][1]) <=> ModelOf(t) # PrimaryModel
           /\ Carried(sent[t][1]).model = ModelOf(t)
           /\ Carried(sent[t][1]).messages = Arg(t, "messages")
           /\ Carried(sent[t][1]).temperature = ValueOf(t, "temperature", 7)
           /\ Carried(sent[t][1]).max_tokens = ValueOf(t, "max_tokens", 1000)
           /\ Carried(sent[t][1]).stream = ValueOf(t, "stream", FALSE)

C4_Witness ==
    \E t \in Tasks :
        /\ PassesValidation(t) /\ Finished(t)
        /\ ModelOf(t) = Gpt4o
        /\ Given(t, "temperature")
        /\ Len(sent[t]) = 1 /\ Library(sent[t][1])

-----------------------------------------------------------------------------
(* C5 *)

\* the transport gave a response to normalise: status 200 on the direct
\* path, a returned response on the library path, with a JSON object
GotResponse(t) ==
    /\ Completing(t) /\ Finished(t)
    /\ IF reply[t].kind = "response" THEN reply[t].status_code = 200
       ELSE reply[t].kind = "return"
    /\ reply[t].json.t = "dict"

Body(t) == reply[t].json.d

HasChoices(t) ==
    /\ GotResponse(t)
    /\ "choices" \in DOMAIN Body(t)
    /\ Body(t).choices.t = "list"
    /\ Len(Body(t).choices.items) >= 1

FirstChoice(t) == Body(t).choices.items[1]

FirstChoiceHasText(t) ==
    /\ HasChoices(t)
    /\ "message" \in DOMAIN FirstChoice(t)
    /\ "content" \in DOMAIN FirstChoice(t).message
    /\ FirstChoice(t).message.content.t = "str"

\* C5: when the response has status 200 and at least one choice, complete
\* returns exactly one text item whose text is the message content of the
\* first choice, whatever further choices follow.
C5_ReturnsFirstChoiceContent ==
    \A t \in Tasks :
        FirstChoiceHasText(t)
        => result[t] = Return(<<[type |-> "text",
                                 text |-> FirstChoice(t).message.content]>>)

C5_Witness ==
    \E t \in Tasks :
        /\ FirstChoiceHasText(t)
        /\ Body(t).choices.items = <<Choice(Str("4")), Choice(Str("5"))>>
        /\ result[t] = Return(<<[type |-> "text", text |-> Str("4")]>>)

-----------------------------------------------------------------------------
(* C6 *)

ZeroChoices(t) ==
    /\ GotResponse(t)
    /\ \/ "choices" \notin DOMAIN Body(t)
       \/ Body(t).choices = None
       \/ Body(t).choices = List(<<>>)

\* C6: on either call path, a response with no choices (choices absent,
\* null or empty) makes complete fail with EmptyResponse, never succeed.
C6_ZeroChoicesIsEmptyResponse ==
    \A t \in Tasks : ZeroChoices(t) => EmptyResponse(t) /\ ~Succeeded(t)

C6_Witness ==
    \E t \in Tasks :
        /\ ZeroChoices(t)
        /\ "choices" \in DOMAIN Body(t) /\ Body(t).choices = List(<<>>)
        /\ Direct(sent[t][1]) /\ EmptyResponse(t)

-----------------------------------------------------------------------------
(* C7 *)

\* the direct post came back with a status outside 200..299
NonSuccessStatus(t) ==
    /\ Completing(t) /\ Finished(t)
    /\ reply[t].kind = "response"
    /\ reply[t].status_code \notin 200..299

\* C7: on the direct path a response with a non-2xx status makes complete
\* fail with a ProxyError that carries the status code and the response
\* body; it returns no success value.
C7_NonSuccessStatusIsProxyError ==
    \A t \in Tasks :
        NonSuccessStatus(t)
        => /\ ProxyError(t)
           /\ Says(t, <<Str("Proxy error: "), PyInt(reply[t].status_code),
                        Str(" - "), reply[t].text>>)
           /\ ~Succeeded(t)

C7_Witness ==
    \E t \in Tasks :
        /\ NonSuccessStatus(t)
        /\ reply[t].status_code = 500 /\ reply[t].text = Str("server error")
        /\ Says(t, <<Str("Proxy error: "), PyInt(500), Str(" - "), Str("server error")>>)

-----------------------------------------------------------------------------
(* C8 *)

TransportRaised(t, types) ==
    /\ Completing(t) /\ Finished(t)
    /\ reply[t].kind = "raise"
    /\ reply[t].exc.type \in types

TimedOut(t) ==
    TransportRaised(t, {"httpx.ReadTimeout", "httpx.ConnectTimeout", "litellm.Timeout"})
ConnectionFailed(t) ==
    TransportRaised(t, {"httpx.ConnectError", "litellm.APIConnectionError"})

\* C8: for a valid request to any allow-listed model, a transport timeout
\* makes complete fail with the ProxyTimeout kind and a connection failure
\* with the ProxyConnectionError kind, never with the generic kind.
C8_TimeoutAndConnectionKinds ==
    \A t \in Tasks :
        /\ TimedOut(t)
           => ProxyTimeout(t) /\ ~ProxyConnectionError(t) /\ ~GenericFailure(t)
        /\ ConnectionFailed(t)
           => ProxyConnectionError(t) /\ ~ProxyTimeout(t) /\ ~GenericFailure(t)

-----------------------------------------------------------------------------
(* C9 *)

\* C9: during one complete call the transport (the direct post or the
\* library call) is invoked at most once, whatever the outcome.
C9_TransportInvokedAtMostOnce ==
    \A t \in Tasks : Len(sent[t]) <= 1

C9_Witness ==
    \E t \in Tasks :
        /\ TimedOut(t) /\ Failed(t)
        /\ Direct(sent[t][1]) /\ Len(sent[t]) = 1

-----------------------------------------------------------------------------
(* C10 *)

\* the model identifiers a listing shows: what follows each "- " bullet
ListedModels(text) ==
    {text.parts[i].parts[2] :
        i \in {j \in DOMAIN text.parts :
                  /\ "parts" \in DOMAIN text.parts[j]
                  /\ text.parts[j].parts[1] = Str("- ")}}

Listing(t) == Started(t) /\ call[t].name = "list_models"

\* C10: the identifiers listed in the text that list_models returns are
\* exactly the allow-list, on every call and after any earlier calls.
C10_ListModelsIsTheAllowList ==
    \A t \in Tasks :
        Listing(t)
        => /\ Succeeded(t)
           /\ Len(result[t].value) = 1
           /\ result[t].value[1].type = "text"
           /\ ListedModels(result[t].value[1].text) = AllowList

C10_Witness ==
    \E t \in Tasks :
        /\ Listing(t) /\ Succeeded(t)
        /\ ListedModels(result[t].value[1].text) = {PrimaryModel, Gpt4o}

-----------------------------------------------------------------------------
(* C11 *)

UnknownName(t) == Started(t) /\ call[t].name \notin {"complete", "list_models"}

\* C11: a call of any tool name other than "complete" and "list_models" fails
\* with UnknownOperation naming the tool; the failure is the one call_tool
\* raises itself (no completion handler wrapped it, no listing was returned)
\* and neither the direct post nor the library call is invoked.
C11_UnknownOperationRejected ==
    \A t \in Tasks :
        UnknownName(t)
        => /\ UnknownOperation(t)
           /\ result[t].exc.type = "RuntimeError"
           /\ result[t].exc.msg = <<Str("Unknown tool: "), Str(call[t].name)>>
           /\ NoTransport(t)
           /\ pc[t] \notin {"awaiting_post", "in_completion"}

C11_Witness ==
    \E t \in Tasks :
        /\ UnknownName(t) /\ call[t].name = "Complete"
        /\ call[t].arguments = [model |-> Gpt4o, messages |-> List(<<UserMessage>>)]
        /\ UnknownOperation(t) /\ NoTransport(t)

-----------------------------------------------------------------------------
(* C12 *)

Exited == server.phase = "exited"

\* C12: whenever the server process has exited, by a normal end, by an
\* exception while serving or by a failure during start-up (argument parsing,
\* setting the transport up), the shared HTTP client has been closed, and
\* aclose was called exactly once in the life of the process.
C12_EveryExitClosesClientOnce ==
    /\ Len(server.acloses) <= 1
    /\ Exited => (Len(server.acloses) = 1 /\ HTTP_CLIENT.is_closed)

-----------------------------------------------------------------------------
(* C13 *)

ModelAbsentOrEmpty(t) == ~Given(t, "model") \/ Arg(t, "model") = Str("")

\* C13: a complete request whose model argument is absent or the empty string
\* fails with UnsupportedModel, and neither the direct post nor the library
\* call is invoked.
C13_AbsentOrEmptyModelRejected ==
    \A t \in Tasks :
        (Completing(t) /\ ModelAbsentOrEmpty(t))
        => UnsupportedModel(t) /\ NoTransport(t)

-----------------------------------------------------------------------------
(* C14 *)

\* the request breaks the model rule and a messages rule at once
BreaksSeveralRules(t) ==
    /\ Completing(t)
    /\ Given(t, "model") /\ Arg(t, "model") \notin AllowList
    /\ MessagesUnusable(t) \/ HasBadEntry(t)

\* C14: a complete request that breaks the model rule together with a messages
\* rule (messages absent, empty, no list, or with an entry lacking role or
\* content) reports the earliest broken rule: it fails with UnsupportedModel
\* and never with InvalidMessages.
C14_EarliestRuleIsReported ==
    \A t \in Tasks :
        BreaksSeveralRules(t)
        => /\ UnsupportedModel(t)
           /\ ~InvalidMessages(t)
           /\ NoTransport(t)

C14_Witness ==
    \E t \in Tasks :
        /\ BreaksSeveralRules(t)
        /\ Arg(t, "model") = Str("unknown-model-x")
        /\ Given(t, "messages") /\ Arg(t, "messages") = List(<<>>)
        /\ UnsupportedModel(t)

-----------------------------------------------------------------------------
(* C15 *)

\* the messages a transport invocation carries
SentMessages(t) == Carried(sent[t][1]).messages

\* C15: the messages handed to the transport, on the direct path and on the
\* library path, are the request's messages: as many entries, and the same
\* entry at every position.
C15_MessagesForwardedUnchanged ==
    \A t \in Tasks :
        (Completing(t) /\ sent[t] # <<>>)
        => /\ Given(t, "messages")
           /\ SentMessages(t).t = "list"
           /\ Len(SentMessages(t).items) = Len(Arg(t, "messages").items)
           /\ \A i \in 1..Len(Arg(t, "messages").items) :
                  SentMessages(t).items[i] = Arg(t, "messages").items[i]

C15_Witness ==
    \E t \in Tasks :
        /\ Completing(t) /\ sent[t] # <<>> /\ Library(sent[t][1])
        /\ Arg(t, "messages") = List(<<UserMessage, AssistantMessage>>)
        /\ SentMessages(t).items = <<UserMessage, AssistantMessage>>

-----------------------------------------------------------------------------
(* C16 *)

DirectCall(t) == Completing(t) /\ sent[t] # <<>> /\ Direct(sent[t][1])

\* C16: the JSON body of a direct call has exactly the fields model, messages,
\* temperature, max_tokens and stream, and each holds the request's value
\* when the request gives one and otherwise the default: 0.7 (7 tenths) for
\* temperature, 1000 for max_tokens, false for stream.
C16_DirectBodyHasTheFiveFields ==
    \A t \in Tasks :
        DirectCall(t)
        => LET body == sent[t][1].json
           IN  /\ DOMAIN body = {"model", "messages", "temperature", "max_tokens", "stream"}
               /\ body.model = ModelOf(t)
               /\ body.messages = Arg(t, "messages")
               /\ body.temperature = ValueOf(t, "temperature", 7)
               /\ body.max_tokens = ValueOf(t, "max_tokens", 1000)
               /\ body.stream = ValueOf(t, "stream", FALSE)

C16_Witness ==
    \E t \in Tasks :
        /\ DirectCall(t)
        /\ ~Given(t, "temperature") /\ ~Given(t, "max_tokens") /\ ~Given(t, "stream")
        /\ sent[t][1].json.temperature = 7
        /\ sent[t][1].json.max_tokens = 1000
        /\ sent[t][1].json.stream = FALSE

-----------------------------------------------------------------------------
(* C17 *)

\* C17: every request handed to a transport carries a temperature between
\* 0.0 and 2.0 (0 to 20 tenths) and a positive max_tokens; a request outside
\* these ranges is never forwarded.
C17_ForwardedValuesAreInRange ==
    \A t \in Tasks :
        (Completing(t) /\ sent[t] # <<>>)
        => /\ Carried(sent[t][1]).temperature \in 0..20
           /\ Carried(sent[t][1]).max_tokens > 0

-----------------------------------------------------------------------------
(* C18 *)

\* the call of task t has written an error entry to the log
LoggedError(t) == \E i \in DOMAIN log[t] : log[t][i].level = "ERROR"

\* C18: every failure returned to a caller, of whatever kind (UnsupportedModel,
\* InvalidMessages, EmptyResponse, ProxyError, ProxyTimeout,
\* ProxyConnectionError, UnknownOperation), comes after at least one error
\* entry that the same call wrote to the log.
C18_EveryFailureIsLogged ==
    \A t \in Tasks : Failed(t) => LoggedError(t)

-----------------------------------------------------------------------------
(* C19 *)

\* the call of task t is waiting for its remote response, on either path
Waiting(t) == pc[t] \in {"awaiting_post", "in_completion"}

\* another task can take its next step: start a call, take the response its
\* own post was waiting for, or hand its result over
CanRun(u) ==
    /\ pc[u] = "idle" => ENABLED CallTool(u, "list_models", EmptyDict)
    /\ pc[u] = "awaiting_post"
           => ENABLED PostReturns(u, Response(500, Str("server error"), NotJson))
    /\ pc[u] = "done" => ENABLED Deliver(u)

\* C19: while a complete call waits for its remote response, on the direct
\* path or on the library path, every other call can still run: no call has
\* to wait for the remote response of another call.
C19_WaitingCallLeavesOthersRunning ==
    \A t, u \in Tasks : (t # u /\ Waiting(t)) => CanRun(u)

-----------------------------------------------------------------------------
(* C20 *)

\* the text a successful complete call returned
ReturnedText(t) == result[t].value[1].text

\* the call of task t has got a response with a first choice, as its own reply
OwnFirstChoice(t) == FirstChoiceHasText(t) /\ Succeeded(t)

\* C20: concurrent calls are independent.  The text a complete call returns
\* is the first choice of the response to its own request, never that of
\* another call; and two finished calls with the same arguments and the same
\* response have the same outcome, whichever task ran them, whatever the
\* other calls did meanwhile and whatever calls ran before.
C20_CallsAreIndependent ==
    /\ \A t \in Tasks :
           (Completing(t) /\ Succeeded(t))
           => /\ FirstChoiceHasText(t)
              /\ ReturnedText(t) = FirstChoice(t).message.content
    /\ \A t, u \in Tasks :
           (Finished(t) /\ Finished(u) /\ call[t] = call[u] /\ reply[t] = reply[u])
           => result[t] = result[u]

C20_Witness ==
    \E t, u \in Tasks :
        /\ t # u
        /\ OwnFirstChoice(t) /\ OwnFirstChoice(u)
        /\ call[t] = call[u]
        /\ FirstChoice(t).message.content = Str("4")
        /\ FirstChoice(u).message.content = Str("5")
        /\ ReturnedText(t) = Str("4") /\ ReturnedText(u) = Str("5")

-----------------------------------------------------------------------------
(* C21 *)

\* C21: no step of a complete or list_models call, successful or failed,
\* changes the process-wide state: the allow-list, the per-model
\* configuration table, the proxy URL, the bearer token and the shared HTTP
\* client (which client it is, open or closed) stay as they were.
C21_OperationsLeaveGlobalsAlone ==
    [][/\ SUPPORTED_MODELS' = SUPPORTED_MODELS
       /\ MODEL_PERFORMANCE_CONFIG' = MODEL_PERFORMANCE_CONFIG
       /\ LITELLM_PROXY_URL' = LITELLM_PROXY_URL
       /\ LITELLM_API_KEY' = LITELLM_API_KEY
       /\ HTTP_CLIENT' = HTTP_CLIENT]_vars

\* a failed call that had reached the transport, with the globals as start-up
\* left them
C21_Witness ==
    \E t \in Tasks :
        /\ Completing(t) /\ Failed(t) /\ sent[t] # <<>>
        /\ reply[t].kind = "raise"
        /\ SUPPORTED_MODELS = <<PrimaryModel, Gpt4o>>
        /\ DOMAIN MODEL_PERFORMANCE_CONFIG = {PrimaryModel.s, Gpt4o.s}
        /\ LITELLM_PROXY_URL = DefaultProxyUrl
        /\ HTTP_CLIENT.id = 1 /\ ~HTTP_CLIENT.is_closed

-----------------------------------------------------------------------------
(* C22 *)

\* C22: start-up binds exactly one shared HTTP client whether or not the
\* HTTP/2 support is installed: without it the import does not fail and the
\* client is created with http2 off; and every direct call of the process is
\* posted with that client.
C22_OneClientWithOrWithoutHttp2 ==
    /\ server.phase # "import failed"
    /\ HTTP_CLIENT.id = 1
    /\ ~server.h2_installed => ~HTTP_CLIENT.http2
    /\ \A t \in Tasks : \A i \in DOMAIN sent[t] :
           Direct(sent[t][i]) => sent[t][i].client = HTTP_CLIENT.id

C22_Witness ==
    \E t \in Tasks :
        /\ DirectCall(t)
        /\ ~server.h2_installed /\ ~HTTP_CLIENT.http2 /\ ~HTTP_CLIENT.is_closed
        /\ sent[t][1].client = 1

-----------------------------------------------------------------------------
(* C23 *)

\* a response body without its usage entry
WithoutUsage(d) == [k \in DOMAIN d \ {"usage"} |-> d[k]]

\* two transport outcomes that are responses with the same status and the
\* same body but for usage
DifferOnlyInUsage(o1, o2) ==
    /\ o1.kind = o2.kind /\ o1.kind \in {"response", "return"}
    /\ o1.kind = "response" => o1.status_code = o2.status_code
    /\ o1.json.t = "dict" /\ o2.json.t = "dict"
    /\ WithoutUsage(o1.json.d) = WithoutUsage(o2.json.d)

\* C23: usage never influences what complete gives its caller: for a finished
\* call, every response that differs from the one it got only in the presence
\* or the value of usage would have given the same result.
C23_UsageDoesNotInfluenceResult ==
    \A t \in Tasks :
        (Completing(t) /\ Finished(t) /\ sent[t] # <<>>)
        => \A o \in PostOutcomes \cup AllCompletionOutcomes :
               DifferOnlyInUsage(reply[t], o)
               => _handle_completion_resume(sent[t][1], o).end = result[t]

-----------------------------------------------------------------------------
(* C24 *)

NoBearerToken == LITELLM_API_KEY = None

\* C24: without a bearer token the import of the server succeeds, every
\* complete request that passes validation is handed to its transport, and
\* such a call fails only after the transport has answered or raised: the
\* missing token causes no failure of its own.
C24_MissingTokenIsNotALocalFailure ==
    NoBearerToken
    => /\ server.phase # "import failed"
       /\ \A t \in Tasks :
              PassesValidation(t)
              => /\ Len(sent[t]) = 1
                 /\ Failed(t) => reply[t].kind \in {"response", "return", "raise"}

C24_Witness ==
    \E t \in Tasks :
        /\ NoBearerToken
        /\ PassesValidation(t) /\ DirectCall(t)
        /\ sent[t][1].headers.Authorization = Concat(<<Str("Bearer "), None>>)
        /\ Failed(t) /\ reply[t].kind = "response" /\ reply[t].status_code = 401
        /\ ProxyError(t)

-----------------------------------------------------------------------------
(* C25 *)

\* the first choice of the response carries the text `text` as its content
FirstChoiceCarries(t, text) ==
    /\ HasChoices(t)
    /\ "message" \in DOMAIN FirstChoice(t)
    /\ "content" \in DOMAIN FirstChoice(t).message
    /\ FirstChoice(t).message.content = text

\* C25: whenever complete returns a success value, its text is content that
\* the first choice of the remote response carried; a first choice without
\* message or without content never ends in a successful result.
C25_SuccessTextComesFromResponse ==
    \A t \in Tasks :
        (Completing(t) /\ Succeeded(t))
        => FirstChoiceCarries(t, result[t].value[1].text)

-----------------------------------------------------------------------------
(* C26 *)

\* the kinds of failure that _call_proxy_direct's handlers report, as the
\* failure of task t names them
ProxyKindsSaid(t) ==
    {k \in {"Proxy error: ", "Proxy timeout error: ", "Proxy connection error: ",
            "Proxy call error: "} : Says(t, <<Str(k)>>)}

\* C26: a failure raised inside _call_proxy_direct is reported under one kind
\* only: a status other than 200 as a proxy status error and nothing else,
\* and no failure of a direct call carries two of the kinds.
C26_DirectFailureHasOneKind ==
    \A t \in Tasks :
        (DirectCall(t) /\ Failed(t))
        => /\ Cardinality(ProxyKindsSaid(t)) <= 1
           /\ (reply[t].kind = "response" /\ reply[t].status_code # 200)
                  => ProxyKindsSaid(t) = {"Proxy error: "}

-----------------------------------------------------------------------------
(* C27 *)

\* the direct call of task t has got a response with a status
DirectAnswered(t) == DirectCall(t) /\ Finished(t) /\ reply[t].kind = "response"

\* C27: on the direct path a response is turned into a status failure only
\* when its status is outside 200..299: every response with a 2xx status goes
\* on to the extraction of the text, so that one with a first choice that
\* carries text makes complete succeed, and every other status makes it fail.
C27_SuccessExactlyFor2xx ==
    \A t \in Tasks :
        DirectAnswered(t)
        => /\ reply[t].status_code \in 200..299 => ~ProxyError(t)
           /\ (/\ reply[t].status_code \in 200..299
               /\ reply[t].json = Dict([choices |-> List(<<Choice(Str("4"))>>)]))
                  => result[t] = Return(<<[type |-> "text", text |-> Str("4")]>>)
           /\ reply[t].status_code \notin 200..299 => Failed(t)

-----------------------------------------------------------------------------
(* C28 *)

\* the models the schema of complete advertises
Advertised == {complete_model_enum[i] : i \in DOMAIN complete_model_enum}

\* the models that have an entry in the per-model configuration table
Configured == {Str(k) : k \in DOMAIN MODEL_PERFORMANCE_CONFIG}

\* the models validate_model accepts, among all that are named anywhere
Accepted ==
    {m \in ModelValues \cup Advertised \cup Configured : validate_model(m)}

\* C28: the allow-list is one set everywhere: the models validate_model
\* accepts, the enum of the complete schema, the keys of the per-model
\* configuration table and the identifiers a list_models call prints are
\* equal sets.
C28_OneAllowListEverywhere ==
    /\ Accepted = Advertised
    /\ Accepted = Configured
    /\ \A t \in Tasks :
           (Listing(t) /\ Succeeded(t))
           => ListedModels(result[t].value[1].text) = Accepted

C28_Witness ==
    \E t \in Tasks :
        /\ Listing(t) /\ Succeeded(t)
        /\ ListedModels(result[t].value[1].text) = {PrimaryModel, Gpt4o}
        /\ Accepted = {PrimaryModel, Gpt4o}
        /\ Advertised = {PrimaryModel, Gpt4o}
        /\ Configured = {PrimaryModel, Gpt4o}

-----------------------------------------------------------------------------
(* C29 *)

\* the HTTP endpoint has accepted a tool request for task t, and it has
\* been answered
HttpAnswered(t) == http_request[t] # NoCall /\ pc[t] = "done"

\* C29: a complete or list_models request that the HTTP endpoint of the
\* server has accepted is answered with the result of call_tool for that
\* request: call_tool has been invoked with its name and arguments.
C29_HttpRequestReachesCallTool ==
    \A t \in Tasks :
        HttpAnswered(t)
        => /\ call[t] = http_request[t]
           /\ ~Says(t, <<Str("the transport is not connected to the server")>>)

-----------------------------------------------------------------------------
(* C30 *)

\* the messages q alternate user, assistant, user, ... and end with a user
\* message
Alternates(q) ==
    /\ Len(q) % 2 = 1
    /\ \A i \in DOMAIN q :
           q[i].role = IF i % 2 = 1 THEN Str("user") ELSE Str("assistant")

\* task t is a call the chat loop made
ChatCall(t) == Completing(t) /\ sent[t] # <<>>

\* C30: the history that the chat loop sends to complete, after any inputs
\* and any outcomes of the earlier calls, alternates user, assistant, user,
\* ... from a first user message to the newest user message.
C30_ChatHistoryAlternates ==
    \A t \in Tasks : ChatCall(t) => Alternates(Carried(sent[t][1]).messages.items)

====
